---- MODULE Spec2Model ----
(***************************************************************************)
(* euler-plotter.py: Euler's method against an exact solution.             *)
(*                                                                         *)
(* The program computes with Python floats, which are IEEE-754 binary64    *)
(* numbers: every +, -, *, / is the exact result rounded to 53 significant *)
(* bits, ties to even.  The model keeps that arithmetic.  A float is a     *)
(* record [k, neg, m, e, tag] of value (-1)^neg * m * 2^e, where the       *)
(* magnitude m is a natural number (a digit sequence, see below) that is   *)
(* zero or odd and at most Precision bits long.  Exponents are not         *)
(* bounded: the inputs of the model stay far from overflow and underflow,  *)
(* and nan and inf are not inputs.                                         *)
(***************************************************************************)
EXTENDS Integers, Sequences, FiniteSets, TLC

\* Significant bits of a Python float (binary64).
Precision == 53

Min(a, b) == IF a <= b THEN a ELSE b
Max(a, b) == IF a >= b THEN a ELSE b

(***************************************************************************)
(* Natural numbers of any size, as sequences of digits in base Base, least *)
(* significant digit first, without high zero digits.                      *)
(***************************************************************************)
Base == 2 ^ 15

RECURSIVE IntBitLen(_)
IntBitLen(n) == IF n = 0 THEN 0 ELSE 1 + IntBitLen(n \div 2)

\* The bits of one digit.
LimbBits == IntBitLen(Base - 1)

DigitAt(a, i) == IF 1 <= i /\ i <= Len(a) THEN a[i] ELSE 0

RECURSIVE StripHigh(_)
StripHigh(a) ==
  IF a = <<>> THEN <<>>
  ELSE IF a[Len(a)] # 0 THEN a
  ELSE StripHigh(SubSeq(a, 1, Len(a) - 1))

RECURSIVE AddFrom(_, _, _, _)
AddFrom(a, b, i, c) ==
  IF i > Len(a) /\ i > Len(b)
  THEN (IF c = 1 THEN <<1>> ELSE <<>>)
  ELSE LET s == DigitAt(a, i) + DigitAt(b, i) + c
       IN  <<s % Base>> \o AddFrom(a, b, i + 1, s \div Base)

NatAdd(a, b) == AddFrom(a, b, 1, 0)

\* a - b for a >= b.
RECURSIVE SubFrom(_, _, _, _)
SubFrom(a, b, i, c) ==
  IF i > Len(a) THEN <<>>
  ELSE LET d == a[i] - DigitAt(b, i) - c
       IN  <<d % Base>> \o SubFrom(a, b, i + 1, IF d < 0 THEN 1 ELSE 0)

NatSub(a, b) == StripHigh(SubFrom(a, b, 1, 0))

\* -1, 0, 1 as a < b, a = b, a > b.
RECURSIVE CmpFrom(_, _, _)
CmpFrom(a, b, i) ==
  IF i = 0 THEN 0
  ELSE IF a[i] > b[i] THEN 1
  ELSE IF a[i] < b[i] THEN -1
  ELSE CmpFrom(a, b, i - 1)

NatCmp(a, b) ==
  IF Len(a) > Len(b) THEN 1
  ELSE IF Len(a) < Len(b) THEN -1
  ELSE CmpFrom(a, b, Len(a))

\* a * s for one digit s.
RECURSIVE MulSmallFrom(_, _, _, _)
MulSmallFrom(a, s, i, c) ==
  IF i > Len(a) THEN (IF c = 0 THEN <<>> ELSE <<c>>)
  ELSE LET p == a[i] * s + c
       IN  <<p % Base>> \o MulSmallFrom(a, s, i + 1, p \div Base)

NatMulSmall(a, s) == IF s = 0 THEN <<>> ELSE MulSmallFrom(a, s, 1, 0)

\* a * Base^n.
ShiftDigits(a, n) == IF a = <<>> THEN <<>> ELSE [j \in 1..n |-> 0] \o a

RECURSIVE MulFrom(_, _, _)
MulFrom(a, b, i) ==
  IF i > Len(b) THEN <<>>
  ELSE NatAdd(ShiftDigits(NatMulSmall(a, b[i]), i - 1), MulFrom(a, b, i + 1))

NatMul(a, b) == MulFrom(a, b, 1)

\* a * 2^n.
NatShiftLeft(a, n) == ShiftDigits(NatMulSmall(a, 2 ^ (n % LimbBits)), n \div LimbBits)

\* a \div 2^n.
NatShiftRight(a, n) ==
  LET w == n \div LimbBits
      r == n % LimbBits
  IN  IF w >= Len(a) THEN <<>>
      ELSE StripHigh([j \in 1..(Len(a) - w) |->
             (a[j + w] \div 2 ^ r) + (DigitAt(a, j + w + 1) % 2 ^ r) * 2 ^ (LimbBits - r)])

\* Bit n of a (bit 0 is the lowest).
NatBit(a, n) == (DigitAt(a, n \div LimbBits + 1) \div 2 ^ (n % LimbBits)) % 2

\* Whether a % 2^n # 0.
LowBitsSet(a, n) ==
  \/ \E j \in 1..Min(Len(a), n \div LimbBits) : a[j] # 0
  \/ DigitAt(a, n \div LimbBits + 1) % 2 ^ (n % LimbBits) # 0

\* The number of bits of a.
BitLen(a) == IF a = <<>> THEN 0 ELSE LimbBits * (Len(a) - 1) + IntBitLen(a[Len(a)])

\* The number of low zero bits of a non-zero a.
RECURSIVE LowZeros(_, _)
LowZeros(a, n) == IF NatBit(a, n) = 1 THEN n ELSE LowZeros(a, n + 1)

RECURSIVE NatOfInt(_)
NatOfInt(n) == IF n = 0 THEN <<>> ELSE <<n % Base>> \o NatOfInt(n \div Base)

\* The largest digit q in lo..hi with b * q <= r.
RECURSIVE QuotDigit(_, _, _, _)
QuotDigit(r, b, lo, hi) ==
  IF lo = hi THEN lo
  ELSE LET mid == (lo + hi + 1) \div 2
       IN  IF NatCmp(NatMulSmall(b, mid), r) <= 0
           THEN QuotDigit(r, b, mid, hi)
           ELSE QuotDigit(r, b, lo, mid - 1)

\* Long division for b # 0, from the high digit of a down: <<quotient, remainder>>.
RECURSIVE DivFrom(_, _, _)
DivFrom(a, b, i) ==
  IF i > Len(a) THEN <<<<>>, <<>>>>
  ELSE LET hi == DivFrom(a, b, i + 1)
           r  == StripHigh(<<a[i]>> \o hi[2])
           q  == QuotDigit(r, b, 0, Base - 1)
       IN  <<StripHigh(<<q>> \o hi[1]), NatSub(r, NatMulSmall(b, q))>>

NatDivMod(a, b) == DivFrom(a, b, 1)

(***************************************************************************)
(* Python values: floats, and the other objects an expression can yield.   *)
(***************************************************************************)
Float(neg, m, e) == [k |-> "float", neg |-> neg, m |-> m, e |-> e, tag |-> ""]
Zero == Float(FALSE, <<>>, 0)
\* A raised exception, a function object, the None object.
Raised(tag) == [k |-> "exc", neg |-> FALSE, m |-> <<>>, e |-> 0, tag |-> tag]
Builtin(tag) == [k |-> "fn", neg |-> FALSE, m |-> <<>>, e |-> 0, tag |-> tag]
IsFloat(v) == v.k = "float"
IsExc(v) == v.k = "exc"

\* The float nearest to (-1)^neg * m * 2^e, ties to even, for any natural m.
RoundFloat(neg, m, e) ==
  IF m = <<>> THEN Zero
  ELSE LET d  == Max(0, BitLen(m) - Precision)
           q  == NatShiftRight(m, d)
           up == /\ d > 0
                 /\ NatBit(m, d - 1) = 1
                 /\ (NatBit(q, 0) = 1 \/ LowBitsSet(m, d - 1))
           r  == IF up THEN NatAdd(q, <<1>>) ELSE q
           z  == LowZeros(r, 0)
       IN  Float(neg, NatShiftRight(r, z), e + d + z)

\* -1, 0, 1 as |a| < |b|, |a| = |b|, |a| > |b|.
MagCmp(a, b) ==
  IF a.m = <<>> THEN (IF b.m = <<>> THEN 0 ELSE -1)
  ELSE IF b.m = <<>> THEN 1
  ELSE IF a.e + BitLen(a.m) > b.e + BitLen(b.m) THEN 1
  ELSE IF a.e + BitLen(a.m) < b.e + BitLen(b.m) THEN -1
  ELSE LET lo == Min(a.e, b.e)
       IN  NatCmp(NatShiftLeft(a.m, a.e - lo), NatShiftLeft(b.m, b.e - lo))

\* a < b on floats.
float_lt(a, b) ==
  IF a.neg /\ ~b.neg THEN a.m # <<>> \/ b.m # <<>>
  ELSE IF ~a.neg /\ b.neg THEN FALSE
  ELSE IF a.neg THEN MagCmp(a, b) = 1
  ELSE MagCmp(a, b) = -1

float_le(a, b) == ~float_lt(b, a)

float_neg(a) == IF a.m = <<>> THEN a ELSE Float(~a.neg, a.m, a.e)

float_abs(a) == Float(FALSE, a.m, a.e)

\* a + b, correctly rounded.
float_add(a, b) ==
  IF a.m = <<>> THEN b
  ELSE IF b.m = <<>> THEN a
  ELSE LET lo == Min(a.e, b.e)
           ma == NatShiftLeft(a.m, a.e - lo)
           mb == NatShiftLeft(b.m, b.e - lo)
           c  == NatCmp(ma, mb)
       IN  IF a.neg = b.neg THEN RoundFloat(a.neg, NatAdd(ma, mb), lo)
           ELSE IF c = 0 THEN Zero
           ELSE IF c = 1 THEN RoundFloat(a.neg, NatSub(ma, mb), lo)
           ELSE RoundFloat(b.neg, NatSub(mb, ma), lo)

float_sub(a, b) == float_add(a, float_neg(b))

\* a * b, correctly rounded.
float_mul(a, b) ==
  IF a.m = <<>> \/ b.m = <<>> THEN Zero
  ELSE RoundFloat(a.neg # b.neg, NatMul(a.m, b.m), a.e + b.e)

\* (-1)^neg * (na / nb) * 2^e, correctly rounded, for naturals na, nb # 0:
\* the quotient is taken with at least two bits more than a float holds, and
\* one more bit below them that records a non-zero remainder.
RoundQuotient(neg, na, nb, e) ==
  IF na = <<>> THEN Zero
  ELSE LET s  == Max(0, Precision + 2 + BitLen(nb) - BitLen(na))
           qr == NatDivMod(NatShiftLeft(na, s), nb)
           st == IF qr[2] = <<>> THEN <<>> ELSE <<1>>
       IN  RoundFloat(neg, NatAdd(NatShiftLeft(qr[1], 1), st), e - s - 1)

\* a / b for b # 0, correctly rounded.
float_div(a, b) == RoundQuotient(a.neg # b.neg, a.m, b.m, a.e - b.e)

\* float(n) for a Python int n.
float_of_int(n) ==
  IF n < 0 THEN RoundFloat(TRUE, NatOfInt(-n), 0) ELSE RoundFloat(FALSE, NatOfInt(n), 0)


(***************************************************************************)
(* float(raw) for a decimal literal: the digits d1 d2 ... dn times         *)
(* 10^exp10, negated when neg.  Python rounds the decimal value correctly. *)
(***************************************************************************)
Dec(neg, digits, exp10) == [neg |-> neg, digits |-> digits, exp10 |-> exp10]

RECURSIVE DigitsNat(_, _)
DigitsNat(digits, n) ==
  IF n = 0 THEN <<>>
  ELSE NatAdd(NatMulSmall(DigitsNat(digits, n - 1), 10), NatOfInt(digits[n]))

RECURSIVE Pow10Nat(_)
Pow10Nat(n) == IF n = 0 THEN <<1>> ELSE NatMulSmall(Pow10Nat(n - 1), 10)

float_of_str(raw) ==
  LET n == DigitsNat(raw.digits, Len(raw.digits))
  IN  IF raw.exp10 >= 0
      THEN RoundFloat(raw.neg /\ n # <<>>, NatMul(n, Pow10Nat(raw.exp10)), 0)
      ELSE RoundQuotient(raw.neg /\ n # <<>>, n, Pow10Nat(-raw.exp10), 0)

(***************************************************************************)
(* Expressions.  compile(expr, ..., "eval") turns the text the user typed  *)
(* into a code object; the model holds the texts below and their syntax    *)
(* trees.  A number literal is taken as a float: the literals here are     *)
(* small integers, on which Python's int and float arithmetic agree.       *)
(***************************************************************************)
Num(digits) == [op |-> "num", raw |-> Dec(FALSE, digits, 0)]
Name(id) == [op |-> "name", id |-> id]
BinOp(o, l, r) == [op |-> o, l |-> l, r |-> r]
Neg(x) == [op |-> "neg", x |-> x]
Call(fn, arg) == [op |-> "call", fn |-> fn, arg |-> arg]

compile(expr) ==
  CASE expr = "y"            -> Name("y")
    [] expr = "t"            -> Name("t")
    [] expr = "1"            -> Num(<<1>>)
    [] expr = "-2*y + t"     -> BinOp("+", BinOp("*", Neg(Num(<<2>>)), Name("y")), Name("t"))
    [] expr = "1/(1 - t)"    -> BinOp("/", Num(<<1>>), BinOp("-", Num(<<1>>), Name("t")))
    [] expr = "y + 0/(1 - t)" ->
         BinOp("+", Name("y"), BinOp("/", Num(<<0>>), BinOp("-", Num(<<1>>), Name("t"))))
    [] expr = "abs(1 - t)"   -> Call(Name("abs"), BinOp("-", Num(<<1>>), Name("t")))
    [] expr = "y + z"        -> BinOp("+", Name("y"), Name("z"))
    [] expr = "z"            -> Name("z")
    [] expr = "len"          -> Name("len")
    [] expr = "t or z"       -> BinOp("or", Name("t"), Name("z"))
    [] expr = "__builtins__" -> Name("__builtins__")
    [] expr = "sin"          -> Name("sin")
    [] expr = "e"            -> Name("e")
    [] expr = "y(t)"         -> Call(Name("y"), Name("t"))

\* The identifiers an expression refers to.
RECURSIVE Names(_)
Names(c) ==
  CASE c.op = "num"  -> {}
    [] c.op = "name" -> {c.id}
    [] c.op = "neg"  -> Names(c.x)
    [] c.op = "call" -> Names(c.fn) \cup Names(c.arg)
    [] OTHER         -> Names(c.l) \cup Names(c.r)

(***************************************************************************)
(* make_safe_eval_env: the names an expression may use.                    *)
(***************************************************************************)
Functions ==
  {"sin", "cos", "tan", "asin", "acos", "atan", "sqrt", "exp", "log", "log10",
   "sinh", "cosh", "tanh", "floor", "ceil", "fabs", "pow", "abs", "min", "max"}

make_safe_eval_env ==
  [n \in {"pi", "e"} \cup Functions |->
     IF n = "pi" THEN float_of_str(Dec(FALSE, <<3,1,4,1,5,9,2,6,5,3,5,8,9,7,9,3>>, -15))
     ELSE IF n = "e" THEN float_of_str(Dec(FALSE, <<2,7,1,8,2,8,1,8,2,8,4,5,9,0,4,5>>, -15))
     ELSE Builtin(n)]

None == [k |-> "none", neg |-> FALSE, m |-> <<>>, e |-> 0, tag |-> ""]

\* The globals eval is given: {"__builtins__": None, **allowed}.
eval_globals(allowed) ==
  [n \in {"__builtins__"} \cup DOMAIN allowed |->
     IF n = "__builtins__" THEN None ELSE allowed[n]]

\* Python's lookup of a name in eval(code, globals, locals): the locals, then
\* the globals, then the builtins; with the builtins None that last lookup
\* raises (a TypeError or a NameError, by the Python version).
Lookup(id, globals, local_vars) ==
  IF id \in DOMAIN local_vars THEN local_vars[id]
  ELSE IF id \in DOMAIN globals THEN globals[id]
  ELSE Raised("NameError")

Truthy(v) == IF IsFloat(v) THEN v.m # <<>> ELSE v.k = "fn"

\* a <o> b on two values already evaluated.
Arith(o, a, b) ==
  IF ~(IsFloat(a) /\ IsFloat(b)) THEN Raised("TypeError")
  ELSE CASE o = "+" -> float_add(a, b)
         [] o = "-" -> float_sub(a, b)
         [] o = "*" -> float_mul(a, b)
         [] o = "/" -> IF b.m = <<>> THEN Raised("ZeroDivisionError") ELSE float_div(a, b)

\* Calling fn on one argument.  Of the functions of the environment the
\* model evaluates abs and fabs only.
Apply(fn, a) ==
  IF fn.k # "fn" THEN Raised("TypeError")
  ELSE CASE fn.tag \in {"abs", "fabs"} ->
              IF IsFloat(a) THEN float_abs(a) ELSE Raised("TypeError")

\* eval(code, globals, locals): the value, or the exception raised.
RECURSIVE eval(_, _, _)
eval(c, globals, local_vars) ==
  CASE c.op = "num"  -> float_of_str(c.raw)
    [] c.op = "name" -> Lookup(c.id, globals, local_vars)
    [] c.op = "neg"  ->
         LET a == eval(c.x, globals, local_vars)
         IN  IF IsExc(a) THEN a
             ELSE IF IsFloat(a) THEN float_neg(a) ELSE Raised("TypeError")
    [] c.op = "or"   ->
         LET a == eval(c.l, globals, local_vars)
         IN  IF IsExc(a) \/ Truthy(a) THEN a ELSE eval(c.r, globals, local_vars)
    [] c.op = "call" ->
         LET fn == eval(c.fn, globals, local_vars)
             a  == eval(c.arg, globals, local_vars)
         IN  IF IsExc(fn) THEN fn ELSE IF IsExc(a) THEN a ELSE Apply(fn, a)
    [] OTHER ->
         LET a == eval(c.l, globals, local_vars)
             b == eval(c.r, globals, local_vars)
         IN  IF IsExc(a) THEN a ELSE IF IsExc(b) THEN b ELSE Arith(c.op, a, b)

\* build_f_function(f_code): the function f(y, t).
build_f_function(f_code, y, t) ==
  eval(f_code, eval_globals(make_safe_eval_env), [n \in {"y", "t"} |-> IF n = "y" THEN y ELSE t])

\* build_g_function(g_code): the function g(t).
build_g_function(g_code, t) ==
  eval(g_code, eval_globals(make_safe_eval_env), [n \in {"t"} |-> t])


(***************************************************************************)
(* The program's state, from step 7 of main on (the inputs are read).      *)
(***************************************************************************)
VARIABLES
  f_text, g_text,          \* the two expressions entered
  delta_t, t0, t_end, y0,  \* the four numbers entered
  pc,                      \* where the program is
  t, y, t_values, y_values,\* euler_method's locals
  t_vals, y_vals,          \* main's trajectory, once euler_method returned
  num_points, step, i, T, Y, \* smooth_exact_curve's argument and locals
                           \* (i is compute_max_error's index too)
  T_exact, Y_exact, have_exact_curve, \* main's exact curve
  plotted,                 \* the labels of the curves given to plt.plot
  max_err, compared,       \* compute_max_error's locals
  main_err,                \* main's (max_err, compared), once returned
  out,                     \* what was printed, in order
  exc,                     \* the exception in flight, "" when none
  result                   \* the value a direct call of f or g returned

vars ==
  <<f_text, g_text, delta_t, t0, t_end, y0, pc, t, y, t_values, y_values,
    t_vals, y_vals, num_points, step, i, T, Y, T_exact, Y_exact,
    have_exact_curve, plotted, max_err, compared, main_err, out, exc, result>>

\* The longest trajectory the model follows.
MaxPoints == 54
\* main asks for 200 points of the exact curve.
NumPointsMain == 200
\* main prints the first 10 rows of the table.
TableCount == 10

Msg(text, n) == [msg |-> text, arg |-> n]
Printed(text) == \E j \in 1..Len(out) : out[j].msg = text

f(yy, tt) == build_f_function(compile(f_text), yy, tt)
g(tt) == build_g_function(compile(g_text), tt)

\* prompt_float: the float of what was typed.
prompt_float(raw) == float_of_str(raw)
\* prompt_positive_float returns a value only when it is > 0.
prompt_positive_float(raw) == ~float_le(prompt_float(raw), Zero)

D(digits, exp10) == Dec(FALSE, digits, exp10)

FTexts == {"y", "1", "-2*y + t", "1/(1 - t)", "y + z", "sin"}
GTexts == {"t", "1/(1 - t)", "z"}
\* What is typed for t0, t_end and delta t.
Grids ==
  { <<D(<<0>>, 0), D(<<1>>, 0),  D(<<5>>, -1)>>,   \* 0, 1, 0.5
    <<D(<<0>>, 0), D(<<1>>, 0),  D(<<1>>, 0)>>,    \* 0, 1, 1
    <<D(<<0>>, 0), D(<<2>>, 0),  D(<<5>>, -1)>>,   \* 0, 2, 0.5
    <<D(<<0>>, 0), D(<<5>>, 0),  D(<<1>>, -1)>>,   \* 0, 5, 0.1
    <<D(<<1>>, 16), D(<<2>>, 16), D(<<1>>, 0)>>,   \* 1e16, 2e16, 1
    <<D(<<0>>, 0), D(<<1>>, 0),  D(<<0>>, 0)>>,    \* 0, 1, 0: delta t refused
    <<D(<<1>>, 0), D(<<1>>, 0),  D(<<1>>, 0)>> }   \* 1, 1, 1: t_end refused
Y0s == {D(<<1>>, 0)}

Blank ==
  /\ t = Zero /\ y = Zero /\ t_values = <<>> /\ y_values = <<>>
  /\ t_vals = <<>> /\ y_vals = <<>>
  /\ step = Zero /\ i = 0 /\ T = <<>> /\ Y = <<>>
  /\ T_exact = <<>> /\ Y_exact = <<>> /\ have_exact_curve = TRUE
  /\ plotted = {}
  /\ max_err = Zero /\ compared = 0 /\ main_err = <<>>
  /\ out = <<>> /\ exc = "" /\ result = None

\* main, lines 296-324: the inputs, as the prompts accept them.
Init ==
  /\ f_text \in FTexts
  /\ g_text \in GTexts
  /\ \E gr \in Grids :
       /\ prompt_positive_float(gr[3])
       /\ ~float_le(prompt_float(gr[2]), prompt_float(gr[1]))
       /\ t0 = prompt_float(gr[1])
       /\ t_end = prompt_float(gr[2])
       /\ delta_t = prompt_float(gr[3])
  /\ \E r \in Y0s : y0 = prompt_float(r)
  /\ num_points = NumPointsMain
  /\ pc = "main"
  /\ Blank

(***************************************************************************)
(* euler_method(f, t0, y0, t_end, delta_t)                                 *)
(***************************************************************************)
\* main lines 327-329 and euler_method lines 182-189.
EulerEnter ==
  /\ pc = "main"
  /\ t' = t0
  /\ y' = y0
  /\ t_values' = <<t0>>
  /\ y_values' = <<y0>>
  /\ out' = Append(out, Msg("Computing Euler steps...", 0))
  /\ pc' = "euler_loop"
  /\ UNCHANGED <<f_text, g_text, delta_t, t0, t_end, y0, t_vals, y_vals,
                 num_points, step, i, T, Y, T_exact, Y_exact, have_exact_curve,
                 plotted, max_err, compared, main_err, exc, result>>

\* A step that forgets the step size: y_next = y + slope.
euler_step_without_dt(slope) ==
  /\ t_values' = Append(t_values, float_add(t, delta_t))
  /\ y_values' = Append(y_values, float_add(y, slope))
  /\ t' = float_add(t, delta_t)
  /\ y' = float_add(y, slope)

\* One iteration of the loop, lines 193-209, with f returning a number.
euler_step(slope) ==
  /\ t_values' = Append(t_values, float_add(t, delta_t))
  /\ y_values' = Append(y_values, float_add(y, float_mul(delta_t, slope)))
  /\ t' = float_add(t, delta_t)
  /\ y' = float_add(y, float_mul(delta_t, slope))

EulerStep ==
  /\ pc = "euler_loop"
  /\ float_lt(t, t_end)
  /\ Len(t_values) < MaxPoints
  /\ IsFloat(f(y, t))
  /\ euler_step(f(y, t))
  /\ UNCHANGED <<f_text, g_text, delta_t, t0, t_end, y0, pc, t_vals, y_vals,
                 num_points, step, i, T, Y, T_exact, Y_exact, have_exact_curve,
                 plotted, max_err, compared, main_err, out, exc, result>>

\* A failure that throws the points computed so far away.
EulerFailDiscards ==
  /\ pc = "euler_loop"
  /\ float_lt(t, t_end)
  /\ IsExc(f(y, t))
  /\ out' = out \o <<Msg("There was an error evaluating f(y, t)", Len(t_values)),
                     Msg("Stopping the Euler computation early.", 0)>>
  /\ t_values' = <<t0>>
  /\ y_values' = <<y0>>
  /\ pc' = "euler_return"
  /\ UNCHANGED <<f_text, g_text, delta_t, t0, t_end, y0, t, y,
                 t_vals, y_vals, num_points, step, i, T, Y, T_exact, Y_exact,
                 have_exact_curve, plotted, max_err, compared, main_err, exc, result>>

\* Lines 194-200: f raised; the message, and break.
EulerFail ==
  /\ pc = "euler_loop"
  /\ float_lt(t, t_end)
  /\ IsExc(f(y, t))
  /\ out' = out \o <<Msg("There was an error evaluating f(y, t)", Len(t_values)),
                     Msg("Stopping the Euler computation early.", 0)>>
  /\ pc' = "euler_return"
  /\ UNCHANGED <<f_text, g_text, delta_t, t0, t_end, y0, t, y, t_values, y_values,
                 t_vals, y_vals, num_points, step, i, T, Y, T_exact, Y_exact,
                 have_exact_curve, plotted, max_err, compared, main_err, exc, result>>

\* Line 202: f returned something that is no number, and delta_t * slope,
\* outside the try, raises TypeError; neither euler_method nor main catches it.
EulerTypeError ==
  /\ pc = "euler_loop"
  /\ float_lt(t, t_end)
  /\ ~IsFloat(f(y, t)) /\ ~IsExc(f(y, t))
  /\ exc' = "TypeError"
  /\ pc' = "crashed"
  /\ UNCHANGED <<f_text, g_text, delta_t, t0, t_end, y0, t, y, t_values, y_values,
                 t_vals, y_vals, num_points, step, i, T, Y, T_exact, Y_exact,
                 have_exact_curve, plotted, max_err, compared, main_err, out, result>>

\* Line 193: the loop ends.
EulerExit ==
  /\ pc = "euler_loop"
  /\ ~float_lt(t, t_end)
  /\ pc' = "euler_return"
  /\ UNCHANGED <<f_text, g_text, delta_t, t0, t_end, y0, t, y, t_values, y_values,
                 t_vals, y_vals, num_points, step, i, T, Y, T_exact, Y_exact,
                 have_exact_curve, plotted, max_err, compared, main_err, out, exc,
                 result>>

\* Line 211 and main lines 329-330.
MainEulerReturned ==
  /\ pc = "euler_return"
  /\ t_vals' = t_values
  /\ y_vals' = y_values
  /\ out' = Append(out, Msg("Done. Computed {} points.", Len(t_values)))
  /\ pc' = "table"
  /\ UNCHANGED <<f_text, g_text, delta_t, t0, t_end, y0, t, y, t_values, y_values,
                 num_points, step, i, T, Y, T_exact, Y_exact, have_exact_curve,
                 plotted, max_err, compared, main_err, exc, result>>

\* print_sample_table(t_vals, y_vals, count=10), and main lines 336-338.
PrintTable ==
  /\ pc = "table"
  /\ LET n     == Len(t_vals)
         count == IF n < TableCount THEN n ELSE TableCount
     IN  out' = out \o <<Msg("Sample of the Euler (t, y) values:", count)>>
                    \o (IF n > count THEN <<Msg("... ({} more points)", n - count)>>
                        ELSE <<>>)
  /\ have_exact_curve' = TRUE
  /\ T_exact' = <<>>
  /\ Y_exact' = <<>>
  /\ pc' = "sample_call"
  /\ UNCHANGED <<f_text, g_text, delta_t, t0, t_end, y0, t, y, t_values, y_values,
                 t_vals, y_vals, num_points, step, i, T, Y, plotted, max_err,
                 compared, main_err, exc, result>>


(***************************************************************************)
(* smooth_exact_curve(g, t0, t_end, num_points)                            *)
(***************************************************************************)
\* Lines 222-229.
SampleEnter ==
  /\ pc = "sample_call"
  /\ T' = <<>>
  /\ Y' = <<>>
  /\ num_points' = IF num_points < 2 THEN 2 ELSE num_points
  /\ step' = float_div(float_sub(t_end, t0), float_of_int(num_points' - 1))
  /\ i' = 0
  /\ pc' = "sample_loop"
  /\ UNCHANGED <<f_text, g_text, delta_t, t0, t_end, y0, t, y, t_values, y_values,
                 t_vals, y_vals, T_exact, Y_exact, have_exact_curve, plotted,
                 max_err, compared, main_err, out, exc, result>>

\* A grid that starts at 0 instead of t0.
grid_point_from_zero(n) == float_mul(float_of_int(n), step)

\* Line 231: the i-th grid point.
grid_point(n) == float_add(t0, float_mul(float_of_int(n), step))

\* Lines 230-239, g returning a value.
SampleStep ==
  /\ pc = "sample_loop"
  /\ i < num_points
  /\ ~IsExc(g(grid_point(i)))
  /\ T' = Append(T, grid_point(i))
  /\ Y' = Append(Y, g(grid_point(i)))
  /\ i' = i + 1
  /\ UNCHANGED <<f_text, g_text, delta_t, t0, t_end, y0, pc, t, y, t_values,
                 y_values, t_vals, y_vals, num_points, step, T_exact, Y_exact,
                 have_exact_curve, plotted, max_err, compared, main_err, out, exc,
                 result>>

\* Lines 232-236: g raised, and the exception leaves the function.
SampleRaise ==
  /\ pc = "sample_loop"
  /\ i < num_points
  /\ IsExc(g(grid_point(i)))
  /\ exc' = g(grid_point(i)).tag
  /\ pc' = "sample_raised"
  /\ UNCHANGED <<f_text, g_text, delta_t, t0, t_end, y0, t, y, t_values, y_values,
                 t_vals, y_vals, num_points, step, i, T, Y, T_exact, Y_exact,
                 have_exact_curve, plotted, max_err, compared, main_err, out, result>>

\* Lines 230 and 241.
SampleReturn ==
  /\ pc = "sample_loop"
  /\ i >= num_points
  /\ pc' = "sample_returned"
  /\ UNCHANGED <<f_text, g_text, delta_t, t0, t_end, y0, t, y, t_values, y_values,
                 t_vals, y_vals, num_points, step, i, T, Y, T_exact, Y_exact,
                 have_exact_curve, plotted, max_err, compared, main_err, out, exc,
                 result>>

\* main line 340: the curve returned.
MainSampleReturned ==
  /\ pc = "sample_returned"
  /\ T_exact' = T
  /\ Y_exact' = Y
  /\ pc' = "plot"
  /\ UNCHANGED <<f_text, g_text, delta_t, t0, t_end, y0, t, y, t_values, y_values,
                 t_vals, y_vals, num_points, step, i, T, Y, have_exact_curve,
                 plotted, max_err, compared, main_err, out, exc, result>>

\* A handler that keeps the points sampled before the failure.
MainSampleExceptKeepsPartial ==
  /\ pc = "sample_raised"
  /\ T_exact' = T
  /\ Y_exact' = Y
  /\ out' = out \o <<Msg("Could not generate the smooth exact curve g(t):", i),
                     Msg("We will still show the Euler approximation.", 0)>>
  /\ exc' = ""
  /\ pc' = "plot"
  /\ UNCHANGED <<f_text, g_text, delta_t, t0, t_end, y0, t, y, t_values, y_values,
                 t_vals, y_vals, num_points, step, i, T, Y, have_exact_curve,
                 plotted, max_err, compared, main_err, result>>

\* main lines 341-346: the exception caught.
MainSampleExcept ==
  /\ pc = "sample_raised"
  /\ have_exact_curve' = FALSE
  /\ out' = out \o <<Msg("Could not generate the smooth exact curve g(t):", i),
                     Msg("We will still show the Euler approximation.", 0)>>
  /\ exc' = ""
  /\ pc' = "plot"
  /\ UNCHANGED <<f_text, g_text, delta_t, t0, t_end, y0, t, y, t_values, y_values,
                 t_vals, y_vals, num_points, step, i, T, Y, T_exact, Y_exact,
                 plotted, max_err, compared, main_err, result>>

\* main lines 349-361.
Plot ==
  /\ pc = "plot"
  /\ plotted' = {"Euler approximation"}
                  \cup (IF have_exact_curve THEN {"Exact solution g(t)"} ELSE {})
  /\ pc' = "error_call"
  /\ UNCHANGED <<f_text, g_text, delta_t, t0, t_end, y0, t, y, t_values, y_values,
                 t_vals, y_vals, num_points, step, i, T, Y, T_exact, Y_exact,
                 have_exact_curve, max_err, compared, main_err, out, exc, result>>

(***************************************************************************)
(* compute_max_error(g, t_vals, y_vals)                                    *)
(***************************************************************************)
\* Lines 274-277.
ErrorEnter ==
  /\ pc = "error_call"
  /\ max_err' = Zero
  /\ compared' = 0
  /\ i' = 0
  /\ pc' = "error_loop"
  /\ UNCHANGED <<f_text, g_text, delta_t, t0, t_end, y0, t, y, t_values, y_values,
                 t_vals, y_vals, num_points, step, T, Y, T_exact, Y_exact,
                 have_exact_curve, plotted, main_err, out, exc, result>>

\* An update that keeps the last error instead of the largest.
max_error_update_last(mx, y_e, y_true) == float_abs(float_sub(y_e, y_true))

\* Lines 283-285: the maximum after one more point.
max_error_update(mx, y_e, y_true) ==
  LET err == float_abs(float_sub(y_e, y_true))
  IN  IF float_lt(mx, err) THEN err ELSE mx

\* Lines 278-287, g returning a number.
ErrorStep ==
  /\ pc = "error_loop"
  /\ i < Len(t_vals)
  /\ IsFloat(g(t_vals[i + 1]))
  /\ max_err' = max_error_update(max_err, y_vals[i + 1], g(t_vals[i + 1]))
  /\ compared' = compared + 1
  /\ i' = i + 1
  /\ UNCHANGED <<f_text, g_text, delta_t, t0, t_end, y0, pc, t, y, t_values,
                 y_values, t_vals, y_vals, num_points, step, T, Y, T_exact, Y_exact,
                 have_exact_curve, plotted, main_err, out, exc, result>>

\* Line 282 raises what g raised; line 283 raises TypeError when g returned
\* something that is no number.  The exception leaves the function.
ErrorRaise ==
  /\ pc = "error_loop"
  /\ i < Len(t_vals)
  /\ ~IsFloat(g(t_vals[i + 1]))
  /\ exc' = IF IsExc(g(t_vals[i + 1])) THEN g(t_vals[i + 1]).tag ELSE "TypeError"
  /\ pc' = "error_raised"
  /\ UNCHANGED <<f_text, g_text, delta_t, t0, t_end, y0, t, y, t_values, y_values,
                 t_vals, y_vals, num_points, step, i, T, Y, T_exact, Y_exact,
                 have_exact_curve, plotted, max_err, compared, main_err, out, result>>

\* Lines 278 and 289.
ErrorReturn ==
  /\ pc = "error_loop"
  /\ i >= Len(t_vals)
  /\ pc' = "error_returned"
  /\ UNCHANGED <<f_text, g_text, delta_t, t0, t_end, y0, t, y, t_values, y_values,
                 t_vals, y_vals, num_points, step, i, T, Y, T_exact, Y_exact,
                 have_exact_curve, plotted, max_err, compared, main_err, out, exc,
                 result>>

\* main lines 366-368.
MainErrorReturned ==
  /\ pc = "error_returned"
  /\ main_err' = <<max_err, compared>>
  /\ out' = Append(out, Msg("Maximum absolute error at Euler grid points", compared))
  /\ pc' = "show"
  /\ UNCHANGED <<f_text, g_text, delta_t, t0, t_end, y0, t, y, t_values, y_values,
                 t_vals, y_vals, num_points, step, i, T, Y, T_exact, Y_exact,
                 have_exact_curve, plotted, max_err, compared, exc, result>>

\* A main without the except clause: the exception goes on.
MainErrorExceptMissing ==
  /\ pc = "error_raised"
  /\ pc' = "crashed"
  /\ UNCHANGED <<f_text, g_text, delta_t, t0, t_end, y0, t, y, t_values, y_values,
                 t_vals, y_vals, num_points, step, i, T, Y, T_exact, Y_exact,
                 have_exact_curve, plotted, max_err, compared, main_err, out, exc,
                 result>>

\* main lines 369-372.
MainErrorExcept ==
  /\ pc = "error_raised"
  /\ out' = Append(out, Msg("Could not compute max error at Euler grid points:", i))
  /\ exc' = ""
  /\ pc' = "show"
  /\ UNCHANGED <<f_text, g_text, delta_t, t0, t_end, y0, t, y, t_values, y_values,
                 t_vals, y_vals, num_points, step, i, T, Y, T_exact, Y_exact,
                 have_exact_curve, plotted, max_err, compared, main_err, result>>

\* main lines 375-380.
Show ==
  /\ pc = "show"
  /\ out' = Append(out, Msg("Thanks for using the Euler plotter!", 0))
  /\ pc' = "done"
  /\ UNCHANGED <<f_text, g_text, delta_t, t0, t_end, y0, t, y, t_values, y_values,
                 t_vals, y_vals, num_points, step, i, T, Y, T_exact, Y_exact,
                 have_exact_curve, plotted, max_err, compared, main_err, exc, result>>

Next ==
  \/ EulerEnter \/ EulerStep \/ EulerFail \/ EulerTypeError \/ EulerExit
  \/ MainEulerReturned \/ PrintTable
  \/ SampleEnter \/ SampleStep \/ SampleRaise \/ SampleReturn
  \/ MainSampleReturned \/ MainSampleExcept \/ Plot
  \/ ErrorEnter \/ ErrorStep \/ ErrorRaise \/ ErrorReturn
  \/ MainErrorReturned \/ MainErrorExcept \/ Show

Spec == Init /\ [][Next]_vars

\* The statements of main between its calls (lines 335-380), and the return
\* of compute_max_error (line 289).
MainStep ==
  \/ MainEulerReturned
  \/ PrintTable
  \/ MainSampleReturned
  \/ MainSampleExcept
  \/ Plot
  \/ ErrorEnter
  \/ ErrorReturn
  \/ MainErrorReturned
  \/ MainErrorExcept
  \/ Show

\* The program is sequential and main waits for nothing after its prompts: a
\* statement of main that can be taken is taken.
FairSpec == Spec /\ WF_vars(MainStep)


(***************************************************************************)
(* smooth_exact_curve called on its own, with any number of points.        *)
(***************************************************************************)
\* The largest num_points of a direct call.
MaxNumPoints == 6

\* What is passed for t0 and t_end.
Ranges ==
  { <<D(<<2>>, 0), D(<<1, 0>>, 0)>>,                \* 2, 10
    <<D(<<0>>, 0), D(<<9>>, -1)>>,                  \* 0, 0.9
    <<D(<<0>>, 0), D(<<1>>, 0)>>,                   \* 0, 1
    <<D(<<1>>, 16), D(<<1,0,0,0,0,0,0,0,0,0,0,0,0,0,0,0,4>>, 0)>> } \* 1e16, 1e16 + 4

InitSample ==
  /\ f_text = "y"
  /\ g_text \in {"t", "abs(1 - t)", "1/(1 - t)"}
  /\ \E r \in Ranges : t0 = float_of_str(r[1]) /\ t_end = float_of_str(r[2])
  /\ delta_t = float_of_int(1)
  /\ y0 = Zero
  /\ num_points \in 0..MaxNumPoints
  /\ pc = "sample_call"
  /\ Blank

NextSample == SampleEnter \/ SampleStep \/ SampleRaise \/ SampleReturn

SpecSample == InitSample /\ [][NextSample]_vars

(***************************************************************************)
(* f and g called on their own.                                            *)
(***************************************************************************)
Texts ==
  {"y", "t", "1", "-2*y + t", "1/(1 - t)", "y + 0/(1 - t)", "abs(1 - t)", "y + z",
   "z", "len", "t or z", "__builtins__", "sin", "e", "y(t)"}

\* The arguments of a direct call: 0, 1, 0.5.
Args == {D(<<0>>, 0), D(<<1>>, 0), D(<<5>>, -1)}

InitAdapter ==
  /\ f_text \in Texts
  /\ g_text = f_text
  /\ \E a \in Args : t0 = float_of_str(a)
  /\ \E a \in Args : y0 = float_of_str(a)
  /\ t_end = t0
  /\ delta_t = float_of_int(1)
  /\ num_points = NumPointsMain
  /\ pc = "adapter"
  /\ Blank

\* f(y0, t0), lines 119-123.
CallF ==
  /\ pc = "adapter"
  /\ result' = f(y0, t0)
  /\ pc' = "f_returned"
  /\ UNCHANGED <<f_text, g_text, delta_t, t0, t_end, y0, t, y, t_values, y_values,
                 t_vals, y_vals, num_points, step, i, T, Y, T_exact, Y_exact,
                 have_exact_curve, plotted, max_err, compared, main_err, out, exc>>

\* g(t0), lines 137-139.
CallG ==
  /\ pc = "adapter"
  /\ result' = g(t0)
  /\ pc' = "g_returned"
  /\ UNCHANGED <<f_text, g_text, delta_t, t0, t_end, y0, t, y, t_values, y_values,
                 t_vals, y_vals, num_points, step, i, T, Y, T_exact, Y_exact,
                 have_exact_curve, plotted, max_err, compared, main_err, out, exc>>

NextAdapter == CallF \/ CallG

SpecAdapter == InitAdapter /\ [][NextAdapter]_vars


(***************************************************************************)
(* Properties.                                                             *)
(***************************************************************************)
Lit(digits, exp10) == float_of_str(D(digits, exp10))

ErrorInF == "There was an error evaluating f(y, t)"

\* The docstring of euler_method, lines 175-180: point n of the recurrence
\* from (t0, y0), as <<t, y>>.
RECURSIVE EulerRef(_)
EulerRef(n) ==
  IF n = 1 THEN <<t0, y0>>
  ELSE LET p == EulerRef(n - 1)
       IN  <<float_add(p[1], delta_t),
             float_add(p[2], float_mul(delta_t, f(p[2], p[1])))>>

\* The inputs integrate(f, 0, 1, 1, 0.5) with f(y, t) = y.
Example3 ==
  /\ f_text = "y" /\ t0 = Zero /\ y0 = Lit(<<1>>, 0)
  /\ t_end = Lit(<<1>>, 0) /\ delta_t = Lit(<<5>>, -1)

\* C1: when f never failed, the trajectory euler_method returned starts at
\* (t0, y0), every next point is (t + dt, y + dt * f(y, t)) of the point
\* before it, and integrate(f, 0, 1, 1, 0.5) with f(y, t) = y returns
\* [(0, 1), (0.5, 1.5), (1.0, 2.25)].
C1_EulerRecurrence ==
  (pc = "table" /\ ~Printed(ErrorInF)) =>
    /\ Len(t_vals) = Len(y_vals)
    /\ t_vals[1] = t0
    /\ y_vals[1] = y0
    /\ \A j \in 1..(Len(t_vals) - 1) :
         /\ t_vals[j + 1] = float_add(t_vals[j], delta_t)
         /\ y_vals[j + 1] =
              float_add(y_vals[j], float_mul(delta_t, f(y_vals[j], t_vals[j])))
    /\ Example3 =>
         /\ t_vals = <<Zero, Lit(<<5>>, -1), Lit(<<1>>, 0)>>
         /\ y_vals = <<Lit(<<1>>, 0), Lit(<<1, 5>>, -1), Lit(<<2, 2, 5>>, -2)>>

\* The example's trajectory, returned.
C1_Witness == pc = "table" /\ Example3 /\ Len(t_vals) = 3 /\ ~Printed(ErrorInF)

\* f raises at point n of the recurrence, and at no point before it.
FirstFailureAt(n) ==
  /\ IsExc(f(EulerRef(n)[2], EulerRef(n)[1]))
  /\ \A j \in 1..(n - 1) : IsFloat(f(EulerRef(j)[2], EulerRef(j)[1]))

\* C2, in a state: a trajectory returned after f raised has exactly k points,
\* where the k-th evaluation of f is the one that raised; they are the first
\* k points of the recurrence, the failure is reported and no exception is in
\* flight; a failure at the 3rd evaluation returns exactly 3 points.
C2_Returned ==
  (pc = "table" /\ (Printed(ErrorInF) \/ float_lt(t_vals[Len(t_vals)], t_end))) =>
    /\ FirstFailureAt(Len(t_vals))
    /\ \A j \in 1..Len(t_vals) : <<t_vals[j], y_vals[j]>> = EulerRef(j)
    /\ Len(y_vals) = Len(t_vals)
    /\ Printed(ErrorInF)
    /\ exc = ""
    /\ FirstFailureAt(3) => Len(t_vals) = 3

\* C2, in a step: when f raises, euler_method does not raise; it reports the
\* failure and returns the points it has.
C2_Step ==
  (pc = "euler_loop" /\ float_lt(t, t_end) /\ IsExc(f(y, t))) =>
    /\ pc' = "euler_return"
    /\ exc' = ""
    /\ t_values' = t_values
    /\ y_values' = y_values
    /\ out'[Len(out) + 1] = Msg(ErrorInF, Len(t_values))

\* C2: if f raises on its k-th evaluation, euler_method does not raise, returns
\* exactly k points, the first k of the failure-free recurrence, and reports the
\* failure.
C2_PartialFailure == [](C2_Returned) /\ [][C2_Step]_vars

\* A trajectory of 3 points returned after f raised on its 3rd evaluation.
C2_Witness == pc = "table" /\ Printed(ErrorInF) /\ Len(t_vals) = 3


\* C3: no evaluation error of f, a result that is no number included, is
\* fatal: no exception leaves euler_method for main.
C3_EvalErrorsNonFatal == pc # "crashed"

\* t0 + n * delta_t = t_end, exactly (for t0, t_end >= 0).
ExactMultiple(n) ==
  LET lo == Min(Min(t0.e, t_end.e), delta_t.e)
  IN  /\ ~t0.neg /\ ~t_end.neg
      /\ NatAdd(NatShiftLeft(t0.m, t0.e - lo),
                NatMulSmall(NatShiftLeft(delta_t.m, delta_t.e - lo), n))
           = NatShiftLeft(t_end.m, t_end.e - lo)

\* C4: without failures, when t_end - t0 is n times delta_t the trajectory has
\* n + 1 points and ends at t_end; for t0 = 0, t_end = 5, delta_t = 0.1 it has
\* 51 points and ends at 5.0.
C4_StepCount ==
  (pc = "table" /\ ~Printed(ErrorInF)) =>
    /\ \A n \in 1..MaxPoints :
         ExactMultiple(n) => Len(t_vals) = n + 1 /\ t_vals[n + 1] = t_end
    /\ (t0 = Zero /\ t_end = Lit(<<5>>, 0) /\ delta_t = Lit(<<1>>, -1)) =>
         Len(t_vals) = 51 /\ t_vals[51] = Lit(<<5>>, 0)

\* C5: a call of f or g on an expression that refers to a name that is neither
\* in the environment of make_safe_eval_env nor an argument of the call fails
\* with an error (so it returns nothing, and nothing that is no number).
C5_UnknownNameFails ==
  /\ (pc = "f_returned"
        /\ ~(Names(compile(f_text)) \subseteq DOMAIN make_safe_eval_env \cup {"y", "t"}))
       => IsExc(result)
  /\ (pc = "g_returned"
        /\ ~(Names(compile(g_text)) \subseteq DOMAIN make_safe_eval_env \cup {"t"}))
       => IsExc(result)

\* The call smooth_exact_curve(g, 2, 10, 5).
Example5 == t0 = Lit(<<2>>, 0) /\ t_end = Lit(<<1, 0>>, 0) /\ num_points = 5

\* What C6 and its amendment share: N = num_points points after the clamp,
\* point j at t0 + (j - 1) * step with step = (t_end - t0) / (N - 1), its y the
\* value of g there, and the first t equal to t0.
C6_Points ==
  /\ num_points >= 2
  /\ Len(T) = num_points
  /\ Len(Y) = num_points
  /\ step = float_div(float_sub(t_end, t0), float_of_int(num_points - 1))
  /\ \A j \in 1..num_points :
       /\ T[j] = float_add(t0, float_mul(float_of_int(j - 1), step))
       /\ Y[j] = g(T[j])
  /\ T[1] = t0
  /\ Example5 =>
       T = <<Lit(<<2>>, 0), Lit(<<4>>, 0), Lit(<<6>>, 0), Lit(<<8>>, 0), Lit(<<1, 0>>, 0)>>

C6_Clamp ==
  pc = "sample_call" => num_points' = Max(num_points, 2) /\ pc' = "sample_loop"

\* C6, amended: as claimed, but the last t is t0 + (N - 1) * step as the floats
\* give it, and the t-values never decrease.
C6_Returned ==
  pc = "sample_returned" =>
    /\ C6_Points
    /\ \A j \in 1..(num_points - 1) : float_le(T[j], T[j + 1])

CouldNotGenerate == "Could not generate the smooth exact curve g(t):"
CouldNotCompute == "Could not compute max error at Euler grid points:"

\* C7, in a state: the exact curve main plots is the whole grid, g evaluated at
\* every point of it; after a failure main holds no point of the curve and
\* plots none.
C7_State ==
  /\ (pc = "error_call" /\ "Exact solution g(t)" \in plotted) =>
       /\ have_exact_curve
       /\ Len(T_exact) = NumPointsMain
       /\ Len(Y_exact) = NumPointsMain
       /\ \A j \in 1..NumPointsMain :
            ~IsExc(g(T_exact[j])) /\ Y_exact[j] = g(T_exact[j])
  /\ (pc = "error_call" /\ have_exact_curve) => "Exact solution g(t)" \in plotted
  /\ pc = "sample_raised" => T_exact = <<>> /\ Y_exact = <<>>
  /\ ~have_exact_curve =>
       /\ T_exact = <<>>
       /\ Y_exact = <<>>
       /\ "Exact solution g(t)" \notin plotted
       /\ Printed(CouldNotGenerate)

\* C7, in a step: when g raises at a grid point the call ends with the
\* exception, and hands nothing over.
C7_Step ==
  (pc = "sample_loop" /\ i < num_points
     /\ IsExc(g(float_add(t0, float_mul(float_of_int(i), step))))) =>
    pc' = "sample_raised" /\ T_exact' = T_exact /\ Y_exact' = Y_exact

\* C7: sampling the exact curve is all or nothing.
C7_AllOrNothing == [](C7_State) /\ [][C7_Step]_vars

\* g failed after some grid points had been sampled, and only the Euler curve
\* was plotted.
C7_Witness ==
  /\ pc = "error_call" /\ ~have_exact_curve /\ Len(T) > 0
  /\ plotted = {"Euler approximation"}

AbsError(j) == float_abs(float_sub(y_vals[j], g(t_vals[j])))

\* C8: when g fails at no point of the trajectory, compute_max_error returns
\* the largest |y_i - g(t_i)| over the trajectory's points and their number
\* (g(t) = t and [(0,1),(1,2)] give (1.0, 2)); when g fails at a point, it
\* returns nothing.
C8_MaxError ==
  pc = "show" =>
    IF \A j \in 1..Len(t_vals) : ~IsExc(g(t_vals[j]))
    THEN /\ Len(main_err) = 2
         /\ main_err[2] = Len(t_vals)
         /\ \A j \in 1..Len(t_vals) : float_le(AbsError(j), main_err[1])
         /\ \E j \in 1..Len(t_vals) : AbsError(j) = main_err[1]
         /\ (g_text = "t" /\ t_vals = <<Zero, Lit(<<1>>, 0)>>
               /\ y_vals = <<Lit(<<1>>, 0), Lit(<<2>>, 0)>>)
              => main_err[1] = Lit(<<1>>, 0)
    ELSE /\ main_err = <<>>
         /\ Printed(CouldNotCompute)

\* g(t) = t compared with [(0,1),(1,2)].
C8_Witness ==
  /\ pc = "show" /\ g_text = "t"
  /\ t_vals = <<Zero, Lit(<<1>>, 0)>>
  /\ y_vals = <<Lit(<<1>>, 0), Lit(<<2>>, 0)>>
  /\ Len(main_err) = 2

TableHeader == "Sample of the Euler (t, y) values:"

\* C9, in a state: a failure of the sampling or of the error analysis leaves
\* the trajectory and its table presented, and is reported.
C9_State ==
  /\ ~have_exact_curve =>
       Printed(CouldNotGenerate) /\ Printed(TableHeader) /\ Len(t_vals) > 0
  /\ pc = "show" /\ main_err = <<>> => Printed(CouldNotCompute)
  /\ pc = "done" =>
       /\ "Euler approximation" \in plotted
       /\ Printed(TableHeader)
       /\ Len(t_vals) > 0
       /\ exc = ""

\* C9, in a step: the loop of the error analysis moves on by one point, within
\* the trajectory, so it is left after at most Len(t_vals) iterations.
C9_Step ==
  (pc = "error_loop" /\ pc' = "error_loop") => i' = i + 1 /\ i' <= Len(t_vals)

\* C9: in main a failure of the sampling or of the error analysis is reported
\* and discards only that result; after a sampling failure the error analysis
\* is still entered, its loop is bounded by the trajectory, and once it has
\* failed or returned the run reaches its last step.
C9_NonFatal ==
  /\ [](C9_State)
  /\ [][C9_Step]_vars
  /\ (pc = "sample_raised") ~> (pc = "error_loop")
  /\ (pc = "error_raised" \/ pc = "error_returned") ~> (pc = "done")

\* Both failed, both were reported, and the run ended.
C9_Witness ==
  /\ pc = "done" /\ ~have_exact_curve /\ main_err = <<>>
  /\ Printed(CouldNotGenerate) /\ Printed(CouldNotCompute)

\* C10, in a step: an iteration moves t forward.  The loop test reads t alone
\* and delta_t is fixed, so an iteration that leaves t where it was is followed
\* by the same iteration for as long as f succeeds: the loop ends for every f
\* only if every iteration moves t.
C10_Progress == (pc = "euler_loop" /\ pc' = "euler_loop") => float_lt(t, t')

\* C10, in a state: without failures the trajectory stops at its first t that
\* is >= t_end, which is below t_end + delta_t.
C10_Stops ==
  (pc = "table" /\ ~Printed(ErrorInF)) =>
    /\ \A j \in 1..(Len(t_vals) - 1) : float_lt(t_vals[j], t_end)
    /\ ~float_lt(t_vals[Len(t_vals)], t_end)
    /\ float_lt(t_vals[Len(t_vals)], float_add(t_end, delta_t))

\* C10: for delta_t > 0 and t_end > t0 the loop of euler_method terminates, and
\* without failures it stops at the first point with t >= t_end.
C10_LoopTerminates == [](C10_Stops) /\ [][C10_Progress]_vars

====
